---- MODULE Spec2Model ----
(***************************************************************************)
(* A model of tvclipboard's connection hub (package hub: Hub.Run,          *)
(* Client.ReadPump, Client.WritePump, Client.checkRateLimit) and of its    *)
(* session token managers (package token).                                 *)
(*                                                                         *)
(* Connection ids are 1..MaxConns (uuid.New() in NewClient: all distinct); *)
(* NoID stands for the empty string of Hub.hostID and Message.From.        *)
(* Time is counted in ticks, TicksPerSec ticks to the second.              *)
(***************************************************************************)
EXTENDS Integers, Sequences, FiniteSets, TLC

\* ---------------------------------------------------------------- bounds
MaxConns == 3
SendCap == 2
BroadcastCap == 2
MaxRateLimit == 2
MaxFrames == 3
MaxStops == 2
DrainFrames == 2
TicksPerSec == 2
MaxTokens == 2
MaxAttempts == 2
TokenTimeout == 1

\* ------------------------------------------------------ program constants
maxMessageSize == 1024
ReadLimitSlack == 1024

NoID == 0
Conns == 1..MaxConns

VARIABLES
    clients,         \* Hub.clients: the ids in the membership table
    hostID,          \* Hub.hostID (NoID: "")
    broadcast,       \* Hub.broadcast: the buffered channel of BroadcastMessage
    stop,            \* Hub.stop is closed
    hubRunning,      \* Hub.Run has not returned
    rateLimitPerSec, \* Hub.rateLimitPerSec
    send,            \* Client.Send: the buffered outbound channel, per connection
    closed,          \* Client.closed: Send has been closed
    messageCount,    \* Client.messageCount
    sinceLast,       \* time.Now().Sub(Client.lastMessage), saturated at one second
    pc,              \* where each connection's ReadPump is
    wp,              \* where each connection's WritePump is
    pending,         \* the BroadcastMessage a ReadPump is handing to Hub.broadcast
    connOpen,        \* Client.Conn has not been closed
    errOut,          \* the last error envelope a ReadPump wrote on its Client.Conn: to whom, and why
    frames,          \* frames read so far by all ReadPumps
    toldRole,        \* the role of the last role envelope the hub enqueued for a connection
    runFwd,          \* messages handed to Hub.broadcast in the connection's current run
    now,             \* time.Now() of the token managers, in ticks
    tokens,          \* TokenManager.tokens of the FIFO manager: token id -> timestamp
    tokenOrder,      \* TokenManager.tokenOrder
    issued,          \* the ids GenerateToken of the FIFO manager returned, in order
    firstAt,         \* the timestamp of the first of them (-1: none yet)
    fResult,         \* the last ValidateToken call on the FIFO manager and its error
    sTokens,         \* TokenManager.tokens of the sealing manager: token id -> SessionToken
    sIssued,         \* the sealed tokens its GenerateToken returned
    sResult,         \* its last ValidateToken call: the sealed token, the time, what was returned
    closes,          \* how many times close(client.Send) ran, per connection
    stopCalls,       \* calls of Hub.Stop so far
    stopCloses,      \* how many times close(h.stop) ran
    wrote,           \* the last message a WritePump wrote on its Client.Conn: to whom, and what
    reqToken,        \* the token parameter of each connection's WebSocket request
    reply,           \* what handleWebSocket answered each request: the body of its
                     \* http.Error, and the validation error it logged
    writing          \* the connection's WritePump is inside c.Conn.WriteMessage

hubVars == <<clients, hostID, broadcast, stop, hubRunning, rateLimitPerSec>>
connVars == <<send, closed, messageCount, sinceLast, pc, wp, pending, connOpen, errOut>>
ghostVars == <<frames, toldRole, runFwd>>
tokenVars == <<now, tokens, tokenOrder, issued, firstAt, fResult, sTokens, sIssued, sResult>>
auxVars == <<closes, stopCalls, stopCloses, wrote, reqToken, reply, writing>>
vars == <<hubVars, connVars, ghostVars, tokenVars, auxVars>>

\* ------------------------------------------------------------- messages
\* Message{Type, Content, From, Role}
RoleMsg(r) == [type |-> "role", content |-> "", from |-> NoID, role |-> r]

ErrorMsg(why) == [type |-> "error", content |-> why, from |-> NoID, role |-> ""]

\* c.Conn.WriteMessage(websocket.TextMessage, errorBytes) in ReadPump
ErrorTo(c, why) == [to |-> c, msg |-> ErrorMsg(why)]

NoError == [to |-> NoID, msg |-> ErrorMsg("")]

NoMsg == [type |-> "", content |-> "", from |-> NoID, role |-> ""]

NoPending == [Message |-> NoMsg, From |-> NoID]

NoWrite == [to |-> NoID, msg |-> NoMsg]

\* The frames a peer may put on the transport: a size in bytes, whether the
\* bytes are a JSON Message, and the fields the peer chose.
FrameSizes == {1, maxMessageSize, maxMessageSize + 1,
               maxMessageSize + ReadLimitSlack, maxMessageSize + ReadLimitSlack + 1}

\* Message.Content as the peer chose it: one text, or the number of the frame
Digits == <<"1", "2", "3", "4", "5", "6", "7", "8">>

Contents == {"c"} \cup {Digits[n] : n \in 1..Len(Digits)}

Frames == [size : FrameSizes, json : BOOLEAN, type : {"text", "role"},
           from : {NoID, 1}, content : Contents]

\* The from field is relayed as the sender wrote it.
RelayKeepFrom(c, f) ==
    [type |-> f.type, content |-> f.content,
     from |-> f.from, role |-> IF f.type = "role" THEN "host" ELSE ""]

\* ReadPump: json.Unmarshal(message, &msg); msg.From = c.ID; json.Marshal(msg)
Relay(c, f) ==
    [type |-> f.type, content |-> f.content,
     from |-> c, role |-> IF f.type = "role" THEN "host" ELSE ""]

BroadcastMessage(c, f) == [Message |-> Relay(c, f), From |-> c]

\* ------------------------------------------------------------------ hub
Min(a, b) == IF a < b THEN a ELSE b

\* Every registering client takes the host role.
AssignHostAlways(hid, id) == id

\* Register: "First client becomes host"
AssignHost(hid, id) == IF hid = NoID THEN id ELSE hid

\* The role envelope always says "client".
RoleOfClient(hid, id) == "client"

\* Register: role := "client"; if client.ID == h.hostID { role = "host" }
RoleOf(hid, id) == IF id = hid THEN "host" ELSE "client"

\* The capacity test is off by one.
HasRoomLoose(q) == Len(q) <= SendCap

\* select { case c.Send <- m: default: }: whether the send case is taken
HasRoom(q) == Len(q) < SendCap

TrySend(q, m) == IF HasRoom(q) THEN Append(q, m) ELSE q

\* The sender is not left out.
RecipientsAll(from) == clients

\* The broadcast goes to every connection, registered or not.
RecipientsUnregistered(from) == {id \in Conns : id # from}

\* broadcast: "Don't send back to the sender"
Recipients(from) == {id \in clients : id # from}

\* --------------------------------------------------------------- tokens
\* Token ids: generateRandomID's strings (FIFO manager), hex.EncodeToString of
\* 12 random bytes (sealing manager). There are more ids than the store holds.
TokenIDs == 1..(MaxTokens + 2)

\* GenerateToken calls made in a behaviour
MaxGen == MaxTokens + 2

\* StoreToken is called while the order list is shorter than this
MaxOrder == MaxTokens + 2

\* The clock stops after the token timeout has passed by more than a second.
TimeHorizon == (TokenTimeout + 1) * TicksPerSec + 1

\* No entry under an id in a token map
Absent == -1

NoTokens == [id \in TokenIDs |-> Absent]

Stored(m) == {id \in TokenIDs : m[id] # Absent}

NoResult == [id |-> NoID, err |-> "none"]

\* TokenManager.privateKey, and a key that is not it
ServerKey == "server"

OtherKey == "other"

\* r.URL.Query().Get("token") == ""
NoToken == [ID |-> NoID, Timestamp |-> Absent, key |-> "", intact |-> FALSE]

\* No http.Error was written and no validation error logged
NoReply == [body |-> "", logged |-> ""]

NoSealedResult ==
    [blob |-> [ID |-> NoID, Timestamp |-> Absent, key |-> "", intact |-> FALSE],
     at |-> Absent, err |-> "none", token |-> [ID |-> NoID, Timestamp |-> Absent]]

Init ==
    /\ clients = {}
    /\ hostID = NoID
    /\ broadcast = <<>>
    /\ stop = FALSE
    /\ hubRunning = TRUE
    /\ rateLimitPerSec \in 1..MaxRateLimit
    /\ send = [c \in Conns |-> <<>>]
    /\ closed = [c \in Conns |-> FALSE]
    /\ messageCount = [c \in Conns |-> 0]
    /\ sinceLast = [c \in Conns |-> 0]
    /\ pc = [c \in Conns |-> "new"]
    /\ wp = [c \in Conns |-> "new"]
    /\ pending = [c \in Conns |-> NoPending]
    /\ connOpen = [c \in Conns |-> FALSE]
    /\ errOut = NoError
    /\ frames = 0
    /\ toldRole = [c \in Conns |-> "none"]
    /\ runFwd = [c \in Conns |-> 0]
    /\ now = 0
    /\ tokens = NoTokens
    /\ tokenOrder = <<>>
    /\ issued = <<>>
    /\ firstAt = -1
    /\ fResult = NoResult
    /\ sTokens = NoTokens
    /\ sIssued = {}
    /\ sResult = NoSealedResult
    /\ closes = [c \in Conns |-> 0]
    /\ stopCalls = 0
    /\ stopCloses = 0
    /\ wrote = NoWrite
    /\ reqToken = [c \in Conns |-> NoToken]
    /\ reply = [c \in Conns |-> NoReply]
    /\ writing = [c \in Conns |-> FALSE]

\* handleWebSocket: NewClient, s.hub.Register <- client, go WritePump, go ReadPump;
\* Hub.Run, case client := <-h.Register. Connections arrive in the order of
\* their ids.
HubRegister(c) ==
    /\ hubRunning
    /\ pc[c] \in {"new", "admitted"}
    /\ \A d \in Conns : d < c => pc[d] # "new"
    /\ clients' = clients \cup {c}
    /\ hostID' = AssignHost(hostID, c)
    /\ send' = [send EXCEPT ![c] = TrySend(@, RoleMsg(RoleOf(hostID', c)))]
    /\ toldRole' = IF HasRoom(send[c])
                   THEN [toldRole EXCEPT ![c] = RoleOf(hostID', c)]
                   ELSE toldRole
    /\ pc' = [pc EXCEPT ![c] = "reading"]
    /\ wp' = [wp EXCEPT ![c] = "running"]
    /\ connOpen' = [connOpen EXCEPT ![c] = TRUE]
    /\ UNCHANGED <<broadcast, stop, hubRunning, rateLimitPerSec, closed,
                   messageCount, sinceLast, pending, errOut, frames, runFwd>>
    /\ UNCHANGED tokenVars
    /\ UNCHANGED auxVars

\* The host id is cleared and nobody is promoted.
PromoteNone(y) ==
    /\ hostID' = NoID
    /\ UNCHANGED <<send, toldRole>>

\* The envelope is sent without a default branch: the hub waits for room.
PromoteBlocking(y) ==
    /\ HasRoom(send[y])
    /\ hostID' = y
    /\ send' = [send EXCEPT ![y] = Append(@, RoleMsg("host"))]
    /\ toldRole' = [toldRole EXCEPT ![y] = "host"]

\* Unregister, "If host disconnects, assign new host": the first id the range
\* over h.clients yields, any of the remaining ones.
Promote(y) ==
    /\ hostID' = y
    /\ send' = [send EXCEPT ![y] = TrySend(@, RoleMsg("host"))]
    /\ toldRole' = IF HasRoom(send[y])
                   THEN [toldRole EXCEPT ![y] = "host"]
                   ELSE toldRole

\* if !client.closed { close(client.Send); client.closed = true }, for every
\* connection of S: the count of close(client.Send) after it
CloseSend(S) ==
    [id \in Conns |-> IF id \in S /\ ~closed[id] THEN closes[id] + 1 ELSE closes[id]]

\* The Unregister case does not look the client up.
IsMemberAlways(c) == TRUE

\* The lookup never finds the client.
IsMemberNever(c) == FALSE

\* Unregister: if _, ok := h.clients[client.ID]; ok
IsMember(c) == c \in clients

\* ReadPump's deferred c.Hub.Unregister <- c, then c.Conn.Close();
\* Hub.Run, case client := <-h.Unregister.
HubUnregister(c) ==
    /\ hubRunning
    /\ pc[c] = "unregistering"
    /\ pc' = [pc EXCEPT ![c] = "done"]
    /\ connOpen' = [connOpen EXCEPT ![c] = FALSE]
    /\ IF IsMember(c)
       THEN /\ clients' = clients \ {c}
            /\ closed' = [closed EXCEPT ![c] = TRUE]
            /\ closes' = CloseSend({c})
            /\ IF c = hostID
               THEN IF clients' = {}
                    THEN /\ hostID' = NoID
                         /\ UNCHANGED <<send, toldRole>>
                    ELSE \E y \in clients' : Promote(y)
               ELSE UNCHANGED <<hostID, send, toldRole>>
       ELSE UNCHANGED <<clients, closed, closes, hostID, send, toldRole>>
    /\ UNCHANGED <<broadcast, stop, hubRunning, rateLimitPerSec, messageCount,
                   sinceLast, wp, pending, errOut, frames, runFwd>>
    /\ UNCHANGED tokenVars
    /\ UNCHANGED <<stopCalls, stopCloses, wrote, reqToken, reply, writing>>

\* The broadcast case closes the queue of a member that has no room and leaves
\* the member in the table.
HubBroadcastKeepsMember ==
    /\ hubRunning
    /\ broadcast # <<>>
    /\ LET bm == Head(broadcast)
           full == {id \in Recipients(bm.From) : ~HasRoom(send[id])}
       IN /\ send' = [id \in Conns |->
                        IF id \in Recipients(bm.From) \ full
                        THEN Append(send[id], bm.Message)
                        ELSE send[id]]
          /\ closed' = [id \in Conns |-> closed[id] \/ id \in full]
          /\ closes' = CloseSend(full)
          /\ clients' = clients
    /\ broadcast' = Tail(broadcast)
    /\ UNCHANGED <<hostID, stop, hubRunning, rateLimitPerSec, messageCount,
                   sinceLast, pc, wp, pending, connOpen, errOut, ghostVars>>
    /\ UNCHANGED tokenVars
    /\ UNCHANGED <<stopCalls, stopCloses, wrote, reqToken, reply, writing>>

\* Hub.Run, case broadcastMsg := <-h.broadcast
HubBroadcast ==
    /\ hubRunning
    /\ broadcast # <<>>
    /\ LET bm == Head(broadcast)
           full == {id \in Recipients(bm.From) : ~HasRoom(send[id])}
       IN /\ send' = [id \in Conns |->
                        IF id \in Recipients(bm.From) \ full
                        THEN Append(send[id], bm.Message)
                        ELSE send[id]]
          /\ closed' = [id \in Conns |-> closed[id] \/ id \in full]
          /\ closes' = CloseSend(full)
          /\ clients' = clients \ full
    /\ broadcast' = Tail(broadcast)
    /\ UNCHANGED <<hostID, stop, hubRunning, rateLimitPerSec, messageCount,
                   sinceLast, pc, wp, pending, connOpen, errOut, ghostVars>>
    /\ UNCHANGED tokenVars
    /\ UNCHANGED <<stopCalls, stopCloses, wrote, reqToken, reply, writing>>

\* Stop does not look whether the channel is closed.
AlreadyStoppedNever == FALSE

\* Hub.Stop: select { case <-h.stop: ("Already stopped") default: ... }
AlreadyStopped == stop

\* Hub.Stop: close(h.stop) unless it is closed already
Stop ==
    /\ stopCalls < MaxStops
    /\ stopCalls' = stopCalls + 1
    /\ IF AlreadyStopped
       THEN UNCHANGED <<stop, stopCloses>>
       ELSE /\ stop' = TRUE
            /\ stopCloses' = stopCloses + 1
    /\ UNCHANGED <<clients, hostID, broadcast, hubRunning, rateLimitPerSec,
                   connVars, ghostVars>>
    /\ UNCHANGED tokenVars
    /\ UNCHANGED <<closes, wrote, reqToken, reply, writing>>

\* Hub.Run, case <-h.stop: return
HubStop ==
    /\ hubRunning
    /\ stop
    /\ hubRunning' = FALSE
    /\ UNCHANGED <<clients, hostID, broadcast, stop, rateLimitPerSec,
                   connVars, ghostVars>>
    /\ UNCHANGED tokenVars
    /\ UNCHANGED auxVars

\* ------------------------------------------------------------ ReadPump
\* c.Conn.SetReadLimit(c.Hub.maxMessageSize + 1024): ReadMessage fails with
\* ErrReadLimit on a message above the limit.
OverReadLimit(size) == size > maxMessageSize + ReadLimitSlack

\* The limit is taken in the wrong unit (kilobytes of kilobytes).
TooLargeKB(size) == size > maxMessageSize * 1024

\* ReadPump: int64(len(message)) > c.Hub.maxMessageSize
TooLarge(size) == size > maxMessageSize

\* The window is over only when more than a second has passed.
WindowOverStrict(since) == since > TicksPerSec

\* checkRateLimit: timeSinceLast >= time.Second
WindowOver(since) == since >= TicksPerSec

\* The limit test turns away the last message the limit allows.
LimitReachedEarly(count, limit) == count + 1 >= limit

\* The limit test lets one message more through.
LimitReachedLate(count, limit) == count > limit

\* checkRateLimit: c.messageCount >= hub.rateLimitPerSec
LimitReached(count, limit) == count >= limit

\* checkRateLimit's result
checkRateLimit(c) ==
    WindowOver(sinceLast[c]) \/ ~LimitReached(messageCount[c], rateLimitPerSec)

\* checkRateLimit's effect on c.messageCount when it accepts
CountAfter(c) == IF WindowOver(sinceLast[c]) THEN 1 ELSE messageCount[c] + 1

\* The run a frame belongs to: a frame arriving a second or more after the
\* previously accepted message (c.lastMessage: checkRateLimit sets it when it
\* accepts, NewClient before that) starts a new run.
RunBefore(c) == IF sinceLast[c] >= TicksPerSec THEN 0 ELSE runFwd[c]

\* One turn of ReadPump's loop on a frame that ReadMessage returned (or failed
\* on, above the read limit), up to the hand-over to Hub.broadcast.
ReadFrame(c, f) ==
    /\ pc[c] = "reading"
    /\ connOpen[c]
    /\ frames < MaxFrames
    /\ frames' = frames + 1
    /\ IF OverReadLimit(f.size)
       THEN /\ pc' = [pc EXCEPT ![c] = "unregistering"]
            /\ runFwd' = [runFwd EXCEPT ![c] = RunBefore(c)]
            /\ UNCHANGED <<messageCount, sinceLast, pending, errOut>>
       ELSE IF TooLarge(f.size)
       THEN /\ errOut' = ErrorTo(c, "size")
            /\ runFwd' = [runFwd EXCEPT ![c] = RunBefore(c)]
            /\ UNCHANGED <<messageCount, sinceLast, pending, pc>>
       ELSE IF ~checkRateLimit(c)
       THEN /\ errOut' = ErrorTo(c, "rate")
            /\ runFwd' = [runFwd EXCEPT ![c] = RunBefore(c)]
            /\ UNCHANGED <<messageCount, sinceLast, pending, pc>>
       ELSE /\ messageCount' = [messageCount EXCEPT ![c] = CountAfter(c)]
            /\ sinceLast' = [sinceLast EXCEPT ![c] = 0]
            /\ IF f.json
               THEN /\ pending' = [pending EXCEPT ![c] = BroadcastMessage(c, f)]
                    /\ pc' = [pc EXCEPT ![c] = "sending"]
                    /\ runFwd' = [runFwd EXCEPT ![c] = RunBefore(c) + 1]
               ELSE /\ runFwd' = [runFwd EXCEPT ![c] = RunBefore(c)]
                    /\ UNCHANGED <<pending, pc>>
            /\ UNCHANGED errOut
    /\ UNCHANGED <<hubVars, send, closed, wp, connOpen, toldRole>>
    /\ UNCHANGED tokenVars
    /\ UNCHANGED auxVars

\* ReadPump: c.Hub.broadcast <- broadcastMsg, which waits for room in the channel
SendBroadcast(c) ==
    /\ pc[c] = "sending"
    /\ Len(broadcast) < BroadcastCap
    /\ broadcast' = Append(broadcast, pending[c])
    /\ pending' = [pending EXCEPT ![c] = NoPending]
    /\ pc' = [pc EXCEPT ![c] = "reading"]
    /\ UNCHANGED <<clients, hostID, stop, hubRunning, rateLimitPerSec, send,
                   closed, messageCount, sinceLast, wp, connOpen, errOut, ghostVars>>
    /\ UNCHANGED tokenVars
    /\ UNCHANGED auxVars

\* ReadPump: ReadMessage returns an error (the peer went away, the read deadline
\* passed, the transport was closed): break, and the deferred Unregister.
ReadError(c) ==
    /\ pc[c] = "reading"
    /\ pc' = [pc EXCEPT ![c] = "unregistering"]
    /\ UNCHANGED <<hubVars, send, closed, messageCount, sinceLast, wp, pending,
                   connOpen, errOut, ghostVars>>
    /\ UNCHANGED tokenVars
    /\ UNCHANGED auxVars

\* ----------------------------------------------------------- WritePump
\* WritePump returns: defer c.Conn.Close()
WriteExit(c) ==
    /\ wp' = [wp EXCEPT ![c] = "done"]
    /\ connOpen' = [connOpen EXCEPT ![c] = FALSE]

\* The newest message of the queue is written first.
WriteNextLast(c) ==
    /\ wp[c] = "running"
    /\ send[c] # <<>>
    /\ connOpen[c]
    /\ wrote' = [to |-> c, msg |-> send[c][Len(send[c])]]
    /\ send' = [send EXCEPT ![c] = SubSeq(@, 1, Len(@) - 1)]
    /\ UNCHANGED <<hubVars, closed, messageCount, sinceLast, pc, wp, pending,
                   connOpen, errOut, ghostVars>>
    /\ UNCHANGED tokenVars
    /\ UNCHANGED <<closes, stopCalls, stopCloses, reqToken, reply, writing>>

\* case message, ok := <-c.Send with ok, and WriteMessage succeeds
WriteNext(c) ==
    /\ wp[c] = "running"
    /\ send[c] # <<>>
    /\ connOpen[c]
    /\ wrote' = [to |-> c, msg |-> Head(send[c])]
    /\ send' = [send EXCEPT ![c] = Tail(@)]
    /\ UNCHANGED <<hubVars, closed, messageCount, sinceLast, pc, wp, pending,
                   connOpen, errOut, ghostVars>>
    /\ UNCHANGED tokenVars
    /\ UNCHANGED <<closes, stopCalls, stopCloses, reqToken, reply, writing>>

\* case message, ok := <-c.Send with ok, and WriteMessage fails: return
WriteFail(c) ==
    /\ wp[c] = "running"
    /\ send[c] # <<>>
    /\ send' = [send EXCEPT ![c] = Tail(@)]
    /\ WriteExit(c)
    /\ UNCHANGED <<hubVars, closed, messageCount, sinceLast, pc, pending,
                   errOut, ghostVars>>
    /\ UNCHANGED tokenVars
    /\ UNCHANGED auxVars

\* On !ok the loop goes round again instead of returning.
WriteClosedSpin(c) ==
    /\ wp[c] = "running"
    /\ send[c] = <<>>
    /\ closed[c]
    /\ UNCHANGED vars

\* case message, ok := <-c.Send with !ok: the channel is closed and drained
WriteClosed(c) ==
    /\ wp[c] = "running"
    /\ send[c] = <<>>
    /\ closed[c]
    /\ WriteExit(c)
    /\ UNCHANGED <<hubVars, send, closed, messageCount, sinceLast, pc, pending,
                   errOut, ghostVars>>
    /\ UNCHANGED tokenVars
    /\ UNCHANGED auxVars

\* case <-ticker.C: the ping fails, return (a ping that succeeds changes nothing)
WritePingFail(c) ==
    /\ wp[c] = "running"
    /\ WriteExit(c)
    /\ UNCHANGED <<hubVars, send, closed, messageCount, sinceLast, pc, pending,
                   errOut, ghostVars>>
    /\ UNCHANGED tokenVars
    /\ UNCHANGED auxVars

\* case <-c.Hub.stop: return
WriteStop(c) ==
    /\ wp[c] = "running"
    /\ stop
    /\ WriteExit(c)
    /\ UNCHANGED <<hubVars, send, closed, messageCount, sinceLast, pc, pending,
                   errOut, ghostVars>>
    /\ UNCHANGED tokenVars
    /\ UNCHANGED auxVars

\* WritePump, in two steps: case message, ok := <-c.Send with ok, and the call
\* of c.Conn.WriteMessage(websocket.TextMessage, message) ...
WriteBegin(c) ==
    /\ wp[c] = "running"
    /\ ~writing[c]
    /\ send[c] # <<>>
    /\ connOpen[c]
    /\ wrote' = [to |-> c, msg |-> Head(send[c])]
    /\ send' = [send EXCEPT ![c] = Tail(@)]
    /\ writing' = [writing EXCEPT ![c] = TRUE]
    /\ UNCHANGED <<hubVars, closed, messageCount, sinceLast, pc, wp, pending,
                   connOpen, errOut, ghostVars>>
    /\ UNCHANGED tokenVars
    /\ UNCHANGED <<closes, stopCalls, stopCloses, reqToken, reply>>

\* case <-ticker.C: the call of c.Conn.WriteMessage(websocket.PingMessage, nil)
PingBegin(c) ==
    /\ wp[c] = "running"
    /\ ~writing[c]
    /\ connOpen[c]
    /\ writing' = [writing EXCEPT ![c] = TRUE]
    /\ UNCHANGED <<hubVars, connVars, ghostVars>>
    /\ UNCHANGED tokenVars
    /\ UNCHANGED <<closes, stopCalls, stopCloses, wrote, reqToken, reply>>

\* ... and its return, with no error
WriteEnd(c) ==
    /\ wp[c] = "running"
    /\ writing[c]
    /\ writing' = [writing EXCEPT ![c] = FALSE]
    /\ UNCHANGED <<hubVars, connVars, ghostVars>>
    /\ UNCHANGED tokenVars
    /\ UNCHANGED <<closes, stopCalls, stopCloses, wrote, reqToken, reply>>

\* ----------------------------------------------------------------- time
Alive(c) == pc[c] \in {"reading", "sending"}

Tick ==
    /\ \E c \in Conns : Alive(c) /\ sinceLast[c] < TicksPerSec
    /\ sinceLast' = [c \in Conns |->
                       IF Alive(c) THEN Min(sinceLast[c] + 1, TicksPerSec)
                       ELSE sinceLast[c]]
    /\ UNCHANGED <<hubVars, send, closed, messageCount, pc, wp, pending,
                   connOpen, errOut, frames, toldRole, runFwd>>
    /\ UNCHANGED tokenVars
    /\ UNCHANGED auxVars

\* The token managers do not depend on the hub's configuration.
InitTokens == Init /\ rateLimitPerSec = MaxRateLimit

\* ------------------------------------------------- token managers: time
\* time.Now().Unix(): whole seconds
Unix(t) == t \div TicksPerSec

\* time.Since(time.Unix(timestamp, 0)), in ticks
Since(timestamp) == now - timestamp * TicksPerSec

\* TokenManager.timeout, in ticks
timeout == TokenTimeout * TicksPerSec

\* A token expires at the timeout, not after it.
ExpiredAtTimeout(timestamp) == Since(timestamp) >= timeout

\* time.Since(time.Unix(timestamp, 0)) > tm.timeout
Expired(timestamp) == Since(timestamp) > timeout

TokenTick ==
    /\ now < TimeHorizon
    /\ now' = now + 1
    /\ UNCHANGED <<tokens, tokenOrder, issued, firstAt, fResult, sTokens, sIssued, sResult>>
    /\ UNCHANGED <<hubVars, connVars, ghostVars, auxVars>>

\* ------------------------------------------------------ the FIFO manager
\* GenerateToken's loop over maxAttempts draws of generateRandomID: the first
\* draw that is not in the store, and the last draw when all of them are.
PickID(draws, used) ==
    LET free == {i \in 1..MaxAttempts : draws[i] \notin used}
    IN IF free = {}
       THEN draws[MaxAttempts]
       ELSE draws[CHOOSE i \in free : \A j \in free : i <= j]

\* The capacity test is off by one.
OverCapacityLate(n) == n > MaxTokens + 1

\* for len(tm.tokens) > tm.maxTokens
OverCapacity(n) == n > MaxTokens

\* The newest entry is taken for the oldest.
Newest(order) == order[Len(order)]

\* oldestID := tm.tokenOrder[0]
Oldest(order) == order[1]

\* "Enforce max tokens limit by removing oldest entries": the loop, as the pair
\* of tm.tokens and tm.tokenOrder it ends with.
RECURSIVE Evict(_, _)
Evict(m, order) ==
    IF OverCapacity(Cardinality(Stored(m)))
    THEN Evict([m EXCEPT ![Oldest(order)] = Absent], Tail(order))
    ELSE <<m, order>>

\* TokenManager.GenerateToken (FIFO manager)
FifoGenerateToken(draws) ==
    /\ Len(issued) < MaxGen
    /\ LET tokenID == PickID(draws, Stored(tokens))
           kept == Evict([tokens EXCEPT ![tokenID] = Unix(now)],
                         Append(tokenOrder, tokenID))
       IN /\ tokens' = kept[1]
          /\ tokenOrder' = kept[2]
          /\ issued' = Append(issued, tokenID)
          /\ firstAt' = IF firstAt = -1 THEN Unix(now) ELSE firstAt
    /\ UNCHANGED <<now, fResult, sTokens, sIssued, sResult>>
    /\ UNCHANGED <<hubVars, connVars, ghostVars, auxVars>>

\* TokenManager.ValidateToken (FIFO manager): the error it returns ("": nil)
FifoValidate(tokenID) ==
    IF tokens[tokenID] = Absent THEN "token not found"
    ELSE IF Expired(tokens[tokenID]) THEN "token expired"
    ELSE ""

FifoValidateToken(tokenID) ==
    /\ fResult' = [id |-> tokenID, err |-> FifoValidate(tokenID)]
    /\ UNCHANGED <<now, tokens, tokenOrder, issued, firstAt, sTokens, sIssued, sResult>>
    /\ UNCHANGED <<hubVars, connVars, ghostVars, auxVars>>

\* StoreToken puts the token in the map only.
FifoStoreTokenMapOnly(tokenID, timestamp) ==
    /\ Len(tokenOrder) < MaxOrder
    /\ tokens' = [tokens EXCEPT ![tokenID] = timestamp]
    /\ UNCHANGED <<now, tokenOrder, issued, firstAt, fResult, sTokens, sIssued, sResult>>
    /\ UNCHANGED <<hubVars, connVars, ghostVars, auxVars>>

\* TokenManager.StoreToken (FIFO manager): tm.tokens[token.ID] = token.Timestamp,
\* tm.tokenOrder = append(tm.tokenOrder, token.ID); nothing is evicted.
FifoStoreToken(tokenID, timestamp) ==
    /\ Len(tokenOrder) < MaxOrder
    /\ tokens' = [tokens EXCEPT ![tokenID] = timestamp]
    /\ tokenOrder' = Append(tokenOrder, tokenID)
    /\ UNCHANGED <<now, issued, firstAt, fResult, sTokens, sIssued, sResult>>
    /\ UNCHANGED <<hubVars, connVars, ghostVars, auxVars>>

NextFifo ==
    \/ \E draws \in [1..MaxAttempts -> TokenIDs] : FifoGenerateToken(draws)
    \/ \E tokenID \in TokenIDs : FifoValidateToken(tokenID)
    \/ TokenTick

SpecFifo == InitTokens /\ [][NextFifo]_vars

\* The FIFO manager with the tokens a caller stores itself, within one second
\* (neither operation looks at the timestamps in the store).
NextStore ==
    \/ \E draws \in [1..MaxAttempts -> TokenIDs] : FifoGenerateToken(draws)
    \/ \E tokenID \in TokenIDs : \E timestamp \in 0..Unix(now) :
          FifoStoreToken(tokenID, timestamp)

SpecStore == InitTokens /\ [][NextStore]_vars

\* --------------------------------------------------- the sealing manager
\* encryptToken: the token sealed under a key (AES-GCM with a fresh nonce)
encryptToken(token, key) ==
    [ID |-> token.ID, Timestamp |-> token.Timestamp, key |-> key, intact |-> TRUE]

\* The seal is opened without authentication (a cipher mode with no tag).
decryptTokenNoAuth(blob, key) ==
    IF blob.key = key
    THEN [ok |-> TRUE, token |-> [ID |-> blob.ID, Timestamp |-> blob.Timestamp]]
    ELSE [ok |-> FALSE, token |-> [ID |-> NoID, Timestamp |-> Absent]]

\* decryptToken: gcm.Open succeeds on what was sealed under the same key and
\* not altered since
decryptToken(blob, key) ==
    IF blob.key = key /\ blob.intact
    THEN [ok |-> TRUE, token |-> [ID |-> blob.ID, Timestamp |-> blob.Timestamp]]
    ELSE [ok |-> FALSE, token |-> [ID |-> NoID, Timestamp |-> Absent]]

\* A sealed token with one byte changed
Tampered(blob) == [blob EXCEPT !.intact = FALSE]

\* What a caller may present: what was issued, altered copies of it, and
\* tokens sealed under another key.
Presentable ==
    sIssued \cup {Tampered(b) : b \in sIssued}
            \cup {encryptToken([ID |-> b.ID, Timestamp |-> b.Timestamp], OtherKey) : b \in sIssued}

\* TokenManager.GenerateToken (sealing manager)
SealedGenerateToken(tokenID) ==
    /\ Cardinality(sIssued) < MaxGen
    /\ LET token == [ID |-> tokenID, Timestamp |-> Unix(now)]
       IN /\ sTokens' = [sTokens EXCEPT ![tokenID] = token.Timestamp]
          /\ sIssued' = sIssued \cup {encryptToken(token, ServerKey)}
    /\ UNCHANGED <<now, tokens, tokenOrder, issued, firstAt, fResult, sResult>>
    /\ UNCHANGED <<hubVars, connVars, ghostVars, auxVars>>

\* TokenManager.ValidateToken (sealing manager): the error ("": nil) and the
\* SessionToken it returns
ValidateToken(encrypted) ==
    LET opened == decryptToken(encrypted, ServerKey)
        none == [ID |-> NoID, Timestamp |-> Absent]
    IN IF ~opened.ok THEN [err |-> "invalid token", token |-> none]
       ELSE IF sTokens[opened.token.ID] = Absent
       THEN [err |-> "token not found", token |-> none]
       ELSE IF Expired(sTokens[opened.token.ID])
       THEN [err |-> "token expired", token |-> none]
       ELSE [err |-> "",
             token |-> [ID |-> opened.token.ID, Timestamp |-> sTokens[opened.token.ID]]]

\* A successful validation consumes the token (single use).
SealedValidateTokenOnce(encrypted) ==
    /\ sResult' = [blob |-> encrypted, at |-> now,
                   err |-> ValidateToken(encrypted).err,
                   token |-> ValidateToken(encrypted).token]
    /\ sTokens' = IF ValidateToken(encrypted).err = ""
                  THEN [sTokens EXCEPT ![encrypted.ID] = Absent]
                  ELSE sTokens
    /\ UNCHANGED <<now, tokens, tokenOrder, issued, firstAt, fResult, sIssued>>
    /\ UNCHANGED <<hubVars, connVars, ghostVars, auxVars>>

SealedValidateToken(encrypted) ==
    /\ sResult' = [blob |-> encrypted, at |-> now,
                   err |-> ValidateToken(encrypted).err,
                   token |-> ValidateToken(encrypted).token]
    /\ UNCHANGED <<now, tokens, tokenOrder, issued, firstAt, fResult, sTokens, sIssued>>
    /\ UNCHANGED <<hubVars, connVars, ghostVars, auxVars>>

\* The sweep empties the store.
cleanupAllTokens ==
    /\ sTokens' = NoTokens
    /\ UNCHANGED <<now, tokens, tokenOrder, issued, firstAt, fResult, sIssued, sResult>>
    /\ UNCHANGED <<hubVars, connVars, ghostVars, auxVars>>

\* TokenManager.cleanupExpiredTokens, on the cleanup routine's ticker
cleanupExpiredTokens ==
    /\ sTokens' = [id \in TokenIDs |->
                     IF sTokens[id] # Absent /\ Expired(sTokens[id])
                     THEN Absent ELSE sTokens[id]]
    /\ UNCHANGED <<now, tokens, tokenOrder, issued, firstAt, fResult, sIssued, sResult>>
    /\ UNCHANGED <<hubVars, connVars, ghostVars, auxVars>>

NextSealed ==
    \/ \E tokenID \in TokenIDs : SealedGenerateToken(tokenID)
    \/ \E encrypted \in Presentable : SealedValidateToken(encrypted)
    \/ cleanupExpiredTokens
    \/ TokenTick

SpecSealed == InitTokens /\ [][NextSealed]_vars


\* ------------------------------------------------------------- the server
\* Hub.HasHost
HasHost == hostID # NoID

\* Every request is let in.
AdmitAll(hostExists, token) == "admitted"

\* handleWebSocket, up to the upgrade: what becomes of a request with this
\* token parameter when HasHost() returned hostExists
Admit(hostExists, token) ==
    IF hostExists
    THEN IF token = NoToken THEN "unauthorized"
         ELSE IF ValidateToken(token).err # "" THEN "unauthorized"
         ELSE "admitted"
    ELSE IF token # NoToken THEN "badrequest"
    ELSE "admitted"

\* The body tells the caller why the token was turned down.
ErrorBodyTelling(err) == err

\* handleWebSocket: http.Error(w, "Invalid or expired token", ...), whatever
\* error ValidateToken returned
ErrorBody(err) == "Invalid or expired token"

\* handleWebSocket, up to the upgrade: the status and body of the http.Error it
\* writes (status 0: none, the request goes on to the upgrade), and the error
\* of ValidateToken it logs
Respond(hostExists, token) ==
    IF hostExists
    THEN IF token = NoToken
         THEN [status |-> 401, body |-> "Token required for connection", logged |-> ""]
         ELSE IF ValidateToken(token).err # ""
         THEN [status |-> 401, body |-> ErrorBody(ValidateToken(token).err),
               logged |-> ValidateToken(token).err]
         ELSE [status |-> 0, body |-> "", logged |-> ""]
    ELSE IF token # NoToken
    THEN [status |-> 400,
          body |-> "Invalid connection - first connection should be from host page",
          logged |-> ""]
    ELSE [status |-> 0, body |-> "", logged |-> ""]

\* What a request may carry as its token parameter
TokenInputs == {NoToken} \cup Presentable

\* Server.handleWebSocket up to s.hub.Register <- client, which waits for
\* Hub.Run to take the client (HubRegister); upgraded: upgrader.Upgrade
\* returned no error. Requests arrive in the order of their ids.
HandleWebSocket(c, token, upgraded) ==
    /\ pc[c] = "new"
    /\ \A d \in Conns : d < c => pc[d] # "new"
    /\ reqToken' = [reqToken EXCEPT ![c] = token]
    /\ reply' = [reply EXCEPT ![c] = [body |-> Respond(HasHost, token).body,
                                       logged |-> Respond(HasHost, token).logged]]
    /\ pc' = [pc EXCEPT ![c] =
                 IF Admit(HasHost, token) = "admitted" /\ ~upgraded
                 THEN "upgradefailed"
                 ELSE Admit(HasHost, token)]
    /\ UNCHANGED <<hubVars, send, closed, messageCount, sinceLast, wp, pending,
                   connOpen, errOut, ghostVars>>
    /\ UNCHANGED tokenVars
    /\ UNCHANGED <<closes, stopCalls, stopCloses, wrote, writing>>

\* The server: tokens are issued and age, requests arrive with or without
\* one, the hub registers the connections the handler let in, connections go.
ServerTokenIDs == {1}

NextServer ==
    \/ \E tokenID \in ServerTokenIDs : SealedGenerateToken(tokenID)
    \/ TokenTick
    \/ cleanupExpiredTokens
    \/ \E c \in Conns : \E token \in TokenInputs : \E upgraded \in BOOLEAN :
          HandleWebSocket(c, token, upgraded)
    \/ \E c \in Conns : pc[c] = "admitted" /\ HubRegister(c)
    \/ \E c \in Conns : ReadError(c)
    \/ \E c \in Conns : HubUnregister(c)

SpecServer == InitTokens /\ [][NextServer]_vars

Next ==
    \/ \E c \in Conns : \E token \in TokenInputs : \E upgraded \in BOOLEAN :
          HandleWebSocket(c, token, upgraded)
    \/ \E c \in Conns : HubRegister(c)
    \/ \E c \in Conns : HubUnregister(c)
    \/ HubBroadcast
    \/ Stop
    \/ HubStop
    \/ \E c \in Conns : \E f \in Frames : ReadFrame(c, f)
    \/ \E c \in Conns : SendBroadcast(c)
    \/ \E c \in Conns : ReadError(c)
    \/ \E c \in Conns : WriteNext(c)
    \/ \E c \in Conns : WriteFail(c)
    \/ \E c \in Conns : WriteClosed(c)
    \/ \E c \in Conns : WritePingFail(c)
    \/ \E c \in Conns : WriteStop(c)
    \/ Tick
    \/ \E draws \in [1..MaxAttempts -> TokenIDs] : FifoGenerateToken(draws)
    \/ \E tokenID \in TokenIDs : FifoValidateToken(tokenID)
    \/ \E tokenID \in TokenIDs : SealedGenerateToken(tokenID)
    \/ \E encrypted \in Presentable : SealedValidateToken(encrypted)
    \/ cleanupExpiredTokens
    \/ TokenTick

Spec == Init /\ [][Next]_vars

\* The hub with well-formed text frames only, while no time passes and nobody
\* calls Stop: membership, host assignment and broadcast.
HubFrames ==
    {f \in Frames : f.json /\ f.size = 1 /\ f.type = "text" /\ f.from = NoID
                      /\ f.content = "c"}

InitHub == Init /\ rateLimitPerSec = MaxRateLimit

NextHub ==
    \/ \E c \in Conns : HubRegister(c)
    \/ \E c \in Conns : HubUnregister(c)
    \/ HubBroadcast
    \/ \E c \in Conns : \E f \in HubFrames : ReadFrame(c, f)
    \/ \E c \in Conns : SendBroadcast(c)
    \/ \E c \in Conns : ReadError(c)
    \/ \E c \in Conns : WriteNext(c)
    \/ \E c \in Conns : WriteClosed(c)

SpecHub == InitHub /\ [][NextHub]_vars

\* The inbound side: every kind of frame, with time passing, the hub taking
\* registrations and broadcasts.
\* Frames of every size, JSON or not; the fields of the message play no part in
\* the size and rate checks.
RateFrames == {f \in Frames : f.type = "text" /\ f.from = NoID /\ f.content = "c"}

NextRate ==
    \/ \E c \in Conns : HubRegister(c)
    \/ HubBroadcast
    \/ \E c \in Conns : \E f \in RateFrames : ReadFrame(c, f)
    \/ \E c \in Conns : SendBroadcast(c)
    \/ \E c \in Conns : HubUnregister(c)
    \/ Tick

SpecRate == Init /\ [][NextRate]_vars

\* Ordering: every peer numbers the frames it sends, so that the content of a
\* message tells when it was sent.
OrderFrames ==
    {f \in Frames : f.json /\ f.size = 1 /\ f.type = "text" /\ f.from = NoID
                      /\ f.content = Digits[frames + 1]}

NextOrder ==
    \/ \E c \in Conns : HubRegister(c)
    \/ \E c \in Conns : \E f \in OrderFrames : ReadFrame(c, f)
    \/ \E c \in Conns : SendBroadcast(c)
    \/ HubBroadcast
    \/ \E c \in Conns : WriteNext(c)

SpecOrder == InitHub /\ [][NextOrder]_vars

\* Shutdown: connections come and go while Stop is called, once or again. A
\* write on the transport is taken to complete. Go's select takes a case that
\* stays ready sooner or later: the stop case of Hub.Run and of each WritePump.
NextStop ==
    \/ \E c \in Conns : HubRegister(c)
    \/ \E c \in Conns : HubUnregister(c)
    \/ \E c \in Conns : ReadError(c)
    \/ Stop
    \/ HubStop
    \/ \E c \in Conns : WriteNext(c)
    \/ \E c \in Conns : WriteClosed(c)
    \/ \E c \in Conns : WriteStop(c)

SpecStop ==
    /\ InitHub
    /\ [][NextStop]_vars
    /\ WF_vars(HubStop)
    /\ \A c \in Conns : WF_vars(WriteStop(c))

\* Shutdown again, with what the Go runtime guarantees besides: Hub.Run takes a
\* client that waits on the Unregister channel sooner or later while it runs,
\* and ReadMessage fails once the transport is closed.
SpecShutdown ==
    /\ InitHub
    /\ [][NextStop]_vars
    /\ WF_vars(HubStop)
    /\ \A c \in Conns : WF_vars(WriteStop(c))
    /\ \A c \in Conns : WF_vars(HubUnregister(c))
    /\ \A c \in Conns : WF_vars(~connOpen[c] /\ ReadError(c))

\* The two writers of a transport: the WritePump, with its write taken in two
\* steps, and the ReadPump, which writes an error envelope for a frame above
\* the size limit or beyond the rate limit.
WriteFrames ==
    {f \in Frames : f.json /\ f.size \in {1, maxMessageSize + 1} /\ f.type = "text"
                      /\ f.from = NoID /\ f.content = "c"}

NextWrites ==
    \/ \E c \in Conns : HubRegister(c)
    \/ \E c \in Conns : \E f \in WriteFrames : ReadFrame(c, f)
    \/ \E c \in Conns : SendBroadcast(c)
    \/ HubBroadcast
    \/ \E c \in Conns : WriteBegin(c)
    \/ \E c \in Conns : PingBegin(c)
    \/ \E c \in Conns : WriteEnd(c)

SpecWrites == Init /\ [][NextWrites]_vars

\* Relaying: peers send well-formed frames of either type, text or role (with
\* role=host), and put nothing or the id of the first connection in from.
RelayFrames == {f \in Frames : f.json /\ f.size = 1 /\ f.content = "c"}

NextRelay ==
    \/ \E c \in Conns : HubRegister(c)
    \/ \E c \in Conns : \E f \in RelayFrames : ReadFrame(c, f)
    \/ \E c \in Conns : SendBroadcast(c)
    \/ HubBroadcast
    \/ \E c \in Conns : WriteNext(c)

SpecRelay == InitHub /\ [][NextRelay]_vars

\* Draining: queues are closed by the Unregister case and by a Broadcast that
\* finds them full; the peer of the first connection sends DrainFrames
\* messages, which fill the queue of a receiver that does not write and
\* overflow it. A WritePump that can take a step takes one sooner or later: a
\* receive from its queue, closed or not, and the write that follows, which is
\* taken to complete or fail.
NextDrain ==
    \/ \E c \in Conns : HubRegister(c)
    \/ \E f \in HubFrames : frames < DrainFrames /\ ReadFrame(1, f)
    \/ \E c \in Conns : SendBroadcast(c)
    \/ HubBroadcast
    \/ \E c \in Conns : ReadError(c)
    \/ \E c \in Conns : HubUnregister(c)
    \/ \E c \in Conns : WriteNext(c)
    \/ \E c \in Conns : WriteFail(c)
    \/ \E c \in Conns : WriteClosed(c)

SpecDrain ==
    /\ InitHub
    /\ [][NextDrain]_vars
    /\ \A c \in Conns : WF_vars(WriteNext(c) \/ WriteFail(c) \/ WriteClosed(c))

\* =============================================================== claims
Last(q) == q[Len(q)]

TextFrom(c) == [type |-> "text", content |-> "c", from |-> c, role |-> ""]

\* C1: at most one connection in the membership table holds the host role,
\* that is, was last told role=host by the hub and has not been removed.
C1_AtMostOneHost ==
    Cardinality({c \in clients : toldRole[c] = "host"}) <= 1

\* A promoted host sits in the table with another member, after the first host
\* (which was told host too) was removed.
C1_Witness ==
    /\ 1 \notin clients
    /\ toldRole[1] = "host"
    /\ Cardinality(clients) = 2
    /\ \E c \in clients : toldRole[c] = "host" /\ c = hostID

\* C2: when the hub processes the Unregister of the current host (a member):
\* ClientCount() drops by exactly one; if a connection remains, one of the
\* remaining connections is the host after the step and no other connection is
\* told host; if none remains, HostID() is empty and HasHost() false.
C2_HostUnregistered ==
    [][\A c \in Conns :
          (HubUnregister(c) /\ c \in clients /\ c = hostID) =>
             /\ Cardinality(clients') = Cardinality(clients) - 1
             /\ c \notin clients'
             /\ IF clients' # {}
                THEN /\ hostID' \in clients'
                     /\ \A d \in Conns \ {hostID'} : toldRole'[d] = toldRole[d]
                ELSE hostID' = NoID
      ]_vars

\* The first host is gone, two connections remain and one of them, a client
\* until then, has the host envelope behind its client envelope.
C2_Witness ==
    /\ pc[1] = "done"
    /\ Cardinality(clients) = 2
    /\ hostID \in clients
    /\ send[hostID] = <<RoleMsg("client"), RoleMsg("host")>>

\* C3: Register(conn) makes conn the host exactly when the hub has no host
\* (HasHost() is false); otherwise the host id is unchanged and conn is a
\* client. The role envelope enqueued for conn states that role, and
\* ClientCount() grows by one.
C3_Register ==
    [][\A c \in Conns :
          HubRegister(c) =>
             /\ (hostID' = c) <=> (hostID = NoID)
             /\ hostID # NoID => hostID' = hostID
             /\ send'[c] = Append(send[c],
                                  RoleMsg(IF hostID = NoID THEN "host" ELSE "client"))
             /\ Cardinality(clients') = Cardinality(clients) + 1
             /\ c \in clients'
      ]_vars

\* The first connection was registered as host and the second as client.
C3_Witness ==
    /\ hostID = 1
    /\ clients = {1, 2}
    /\ send[1] = <<RoleMsg("host")>>
    /\ send[2] = <<RoleMsg("client")>>

\* C4: Broadcast(m, senderID) never enqueues m on the sender's queue, and every
\* other member either has m appended to its queue or is removed from the
\* membership table in that step. No queue ever holds a message of its owner.
C4_BroadcastExcludesSender ==
    [][/\ HubBroadcast =>
            LET bm == Head(broadcast)
            IN /\ send'[bm.From] = send[bm.From]
               /\ \A d \in clients \ {bm.From} :
                     \/ send'[d] = Append(send[d], bm.Message)
                     \/ d \notin clients'
       /\ \A c \in Conns : \A i \in 1..Len(send'[c]) : send'[c][i].from # c
      ]_vars

\* A message of connection 1 has reached connection 2 and not connection 1.
C4_Witness ==
    /\ clients = {1, 2}
    /\ broadcast = <<>>
    /\ send[1] = <<RoleMsg("host")>>
    /\ send[2] = <<RoleMsg("client"), TextFrom(1)>>

\* C5: when a Broadcast is processed, every member other than the sender whose
\* queue is full is removed from the membership table and its queue is closed,
\* ClientCount() drops by their number, and every member other than the sender
\* whose queue has room gets the message and stays.
C5_Backpressure ==
    [][HubBroadcast =>
          LET bm == Head(broadcast)
              others == clients \ {bm.From}
              full == {d \in others : Len(send[d]) >= SendCap}
          IN /\ \A d \in full : d \notin clients' /\ closed'[d]
             /\ \A d \in others \ full :
                   d \in clients' /\ send'[d] = Append(send[d], bm.Message)
             /\ Cardinality(clients') = Cardinality(clients) - Cardinality(full)
      ]_vars

\* A broadcast of connection 1 found the queue of connection 2 full and removed
\* it (its ReadPump has not unregistered it), while connection 3 got the message.
C5_Witness ==
    /\ clients = {1, 3}
    /\ closed[2]
    /\ pc[2] = "reading"
    /\ Len(send[2]) = SendCap
    /\ send[3] # <<>>
    /\ Last(send[3]) = TextFrom(1)

\* C6 (a step that changes frames is a frame being read): with rate limit
\* L >= 1, in a run of messages of one connection, each
\* arriving less than a second after the previously accepted one, at most L
\* are handed to Broadcast; a further message of the run (one that passes the
\* size check) is not broadcast, has an error envelope written to its sender
\* only, and leaves the connection open.
C6_RateLimit ==
    [][/\ \A c \in Conns : runFwd'[c] <= rateLimitPerSec
       /\ frames' # frames =>
             \A c \in Conns : \A f \in RateFrames :
                (/\ f.size <= maxMessageSize
                 /\ sinceLast[c] < TicksPerSec
                 /\ runFwd[c] >= rateLimitPerSec
                 /\ ReadFrame(c, f)) =>
                   /\ errOut' = ErrorTo(c, "rate")
                   /\ pc'[c] = "reading"
                   /\ connOpen'[c]
                   /\ UNCHANGED <<broadcast, pending, send, clients, closed, runFwd>>
      ]_vars

\* A connection has had L messages handed on in its run and the next one
\* rejected, and goes on reading.
C6_Witness ==
    \E c \in Conns :
       /\ runFwd[c] = rateLimitPerSec
       /\ sinceLast[c] < TicksPerSec
       /\ errOut = ErrorTo(c, "rate")
       /\ pc[c] = "reading"
       /\ connOpen[c]

\* C7 as stated: for every frame above the configured maximum size nothing is
\* broadcast, the sender gets an error envelope and the connection stays open.
C7_Original ==
    [][frames' # frames =>
          \A c \in Conns : \A f \in RateFrames :
             (f.size > maxMessageSize /\ ReadFrame(c, f)) =>
                /\ errOut' = ErrorTo(c, "size")
                /\ pc'[c] = "reading"
                /\ connOpen'[c]
                /\ UNCHANGED <<broadcast, pending, send>>
      ]_vars

\* C7, amended: a frame above the configured maximum size is never broadcast
\* and does not count against the rate limit; up to the read limit (the maximum
\* plus 1024 bytes) the sender gets an error envelope and the connection stays
\* open, so that a later valid message of the connection that the rate limit
\* lets through is handed to Broadcast; above the read limit the read fails and
\* the connection goes on to unregister, with no error envelope.
C7_Oversize ==
    [][frames' # frames =>
          \A c \in Conns : \A f \in RateFrames :
             /\ (f.size > maxMessageSize /\ ReadFrame(c, f)) =>
                   /\ UNCHANGED <<broadcast, pending, send, messageCount, sinceLast>>
                   /\ IF f.size <= maxMessageSize + ReadLimitSlack
                      THEN /\ errOut' = ErrorTo(c, "size")
                           /\ pc'[c] = "reading"
                           /\ connOpen'[c]
                      ELSE /\ errOut' = errOut
                           /\ pc'[c] = "unregistering"
             /\ (/\ errOut = ErrorTo(c, "size")
                 /\ f.size <= maxMessageSize
                 /\ f.json
                 /\ sinceLast[c] >= TicksPerSec \/ messageCount[c] < rateLimitPerSec
                 /\ ReadFrame(c, f)) =>
                   /\ pc'[c] = "sending"
                   /\ pending'[c] = BroadcastMessage(c, f)
      ]_vars

\* A connection whose oversized frame was answered with an error envelope is
\* handing a later message to Broadcast.
C7_Witness ==
    \E c \in Conns :
       /\ errOut = ErrorTo(c, "size")
       /\ pc[c] = "sending"
       /\ pending[c].From = c

\* C8: the number of tokens in the store never exceeds the capacity.
C8_Capacity == Cardinality(Stored(tokens)) <= MaxTokens

\* More tokens than the capacity were generated, a validation was made, time
\* has passed and the store is full.
C8_Witness ==
    /\ Len(issued) > MaxTokens
    /\ Cardinality(Stored(tokens)) = MaxTokens
    /\ fResult.err # "none"
    /\ now > 0

Distinct(q) == \A i, j \in 1..Len(q) : i # j => q[i] # q[j]

\* None of the tokens generated so far has expired.
NoneExpired == firstAt # -1 => ~(Since(firstAt) > timeout)

\* C9: with capacity N, after distinct tokens T1..Tk were generated in that
\* order and none has expired, exactly the N most recently generated ones
\* validate and every older one is rejected as not found.
C9_FifoEviction ==
    (Distinct(issued) /\ NoneExpired) =>
        \A i \in 1..Len(issued) :
            FifoValidate(issued[i]) =
                (IF i > Len(issued) - MaxTokens THEN "" ELSE "token not found")

\* N + 2 distinct tokens were generated, none has expired, and the first one
\* was just rejected as not found.
C9_Witness ==
    /\ Len(issued) = MaxTokens + 2
    /\ Distinct(issued)
    /\ NoneExpired
    /\ fResult = [id |-> issued[1], err |-> "token not found"]

\* The age of the record stored under the id of a sealed token
AgeOf(blob) == Since(sTokens[blob.ID])

\* C10 as stated: on a sealed token whose seal opens, ValidateToken returns
\* valid exactly when the id is in the store and the record's age is strictly
\* below the timeout; absent: "not found"; age >= timeout: "expired".
C10_Original ==
    \A b \in sIssued :
        LET r == ValidateToken(b)
        IN IF sTokens[b.ID] = Absent THEN r.err = "token not found"
           ELSE IF AgeOf(b) >= timeout THEN r.err = "token expired"
           ELSE r.err = ""

\* C10, amended: on a sealed token whose seal opens, ValidateToken returns
\* valid (with the stored record) exactly when the id is in the store and the
\* record's age is at most the timeout; an absent id is rejected as "not
\* found", a record with age above the timeout as "expired"; at an age equal to
\* the timeout the token still validates.
C10_Validate ==
    \A b \in sIssued :
        LET r == ValidateToken(b)
        IN IF sTokens[b.ID] = Absent THEN r.err = "token not found"
           ELSE IF AgeOf(b) > timeout THEN r.err = "token expired"
           ELSE r.err = "" /\ r.token = [ID |-> b.ID, Timestamp |-> sTokens[b.ID]]

\* A token was just validated successfully with its record's age exactly the
\* timeout.
C10_Witness ==
    /\ sResult.blob \in sIssued
    /\ sResult.err = ""
    /\ sResult.at = now
    /\ AgeOf(sResult.blob) = timeout

\* C11: GenerateToken() immediately followed by ValidateToken of the returned
\* blob succeeds and returns the record whose id is the one just issued;
\* ValidateToken of an issued blob with a byte changed fails.
C11_RoundTrip ==
    [][/\ \A tokenID \in TokenIDs :
            SealedGenerateToken(tokenID) =>
               LET token == [ID |-> tokenID, Timestamp |-> Unix(now)]
               IN ValidateToken(encryptToken(token, ServerKey))' =
                     [err |-> "", token |-> token]
       /\ \A b \in sIssued' : ValidateToken(Tampered(b))'.err = "invalid token"
      ]_vars

\* A token was validated at the very tick it was issued and gave back the
\* record with its id.
C11_Witness ==
    /\ sResult.blob \in sIssued
    /\ sResult.at = sResult.blob.Timestamp * TicksPerSec
    /\ sResult.at = now
    /\ sResult.err = ""
    /\ sResult.token.ID = sResult.blob.ID

\* C12: a successful ValidateToken does not consume the token: the call leaves
\* the store unchanged, and as long as the record it returned has not expired
\* every later ValidateToken of the same token succeeds too (the sealing
\* manager evicts nothing before expiry).
C12_MultiUse ==
    [][/\ sResult' # sResult =>
             \A e \in Presentable : SealedValidateToken(e) => sTokens' = sTokens
       /\ \A b \in {sResult.blob} :
             (/\ sResult.err = ""
              /\ now' - sResult.token.Timestamp * TicksPerSec <= timeout) =>
                 ValidateToken(b)'.err = ""
      ]_vars

\* A token validated successfully at an earlier time is validated successfully
\* again.
C12_Witness ==
    /\ sResult.err = ""
    /\ sResult.at = now
    /\ sResult.at > sResult.token.Timestamp * TicksPerSec + 1
    /\ sTokens[sResult.blob.ID] = sResult.token.Timestamp

\* C13 as stated: GenerateToken never returns an id that was in the store when
\* it was called.
C13_Original ==
    [][\A draws \in [1..MaxAttempts -> TokenIDs] :
          FifoGenerateToken(draws) => Last(issued') \notin Stored(tokens)
      ]_vars

\* C13, what the code does: the id returned is the first draw that is not in
\* the store, and the last draw, an id that is in the store, when every attempt
\* collides; its record then gets a new timestamp and a second entry in the
\* order list.
C13_Retries ==
    [][\A draws \in [1..MaxAttempts -> TokenIDs] :
          FifoGenerateToken(draws) =>
             LET used == Stored(tokens)
                 tokenID == Last(issued')
             IN IF \A i \in 1..MaxAttempts : draws[i] \in used
                THEN tokenID = draws[MaxAttempts]
                ELSE /\ tokenID \notin used
                     /\ \E i \in 1..MaxAttempts :
                           /\ draws[i] = tokenID
                           /\ \A j \in 1..(i - 1) : draws[j] \in used
      ]_vars

\* An id was issued a second time while its first record was in the store: the
\* order list is longer than the store.
C13_Witness ==
    /\ \E i, j \in 1..Len(issued) : i < j /\ issued[i] = issued[j]
    /\ Len(tokenOrder) > Cardinality(Stored(tokens))

\* C18 as stated: a sweep deletes every record whose age is >= the timeout and
\* leaves every record whose age is below the timeout.
C18_Original ==
    [][cleanupExpiredTokens =>
          \A id \in TokenIDs :
             sTokens'[id] = IF sTokens[id] # Absent /\ Since(sTokens[id]) >= timeout
                            THEN Absent ELSE sTokens[id]
      ]_vars

\* C18, amended: a sweep deletes every stored record whose age is strictly
\* above the timeout and leaves in the store, unchanged, every record whose
\* age is at most the timeout; a record whose age equals the timeout stays.
C18_Sweep ==
    [][cleanupExpiredTokens =>
          \A id \in TokenIDs :
             sTokens'[id] = IF sTokens[id] # Absent /\ Since(sTokens[id]) > timeout
                            THEN Absent ELSE sTokens[id]
      ]_vars

\* A sweep has removed the record of one issued token and left one whose age is
\* exactly the timeout.
C18_Witness ==
    \E b1, b2 \in sIssued :
       /\ sTokens[b1.ID] = Absent
       /\ sTokens[b2.ID] # Absent
       /\ Since(sTokens[b2.ID]) = timeout

\* C16: a connection's outbound queue is closed at most once, whatever the
\* interleaving of its Unregister and of removals forced by a Broadcast; and an
\* Unregister of a connection that is not in the membership table changes
\* nothing in the hub (membership, host id, queues).
C16_CloseOnce ==
    [][/\ \A c \in Conns : closes'[c] <= 1
       /\ \A c \in Conns :
             (HubUnregister(c) /\ c \notin clients) =>
                UNCHANGED <<clients, hostID, send, closed, closes, broadcast>>
      ]_vars

\* The host was removed by a Broadcast that found its queue full (its id is
\* still the host id) and its Unregister was processed afterwards: its queue
\* was closed once.
C16_Witness ==
    \E c \in Conns :
       /\ hostID = c
       /\ c \notin clients
       /\ pc[c] = "done"
       /\ closes[c] = 1

\* C17 as stated: when the host is unregistered and several connections
\* remain, the earliest-joined of them (connections join in the order of their
\* ids) is the new host.
C17_Original ==
    [][\A c \in Conns :
          (HubUnregister(c) /\ c \in clients /\ c = hostID
              /\ Cardinality(clients') >= 2) =>
             \A d \in clients' : hostID' <= d
      ]_vars

\* C17, what the code does: the new host is one of the remaining connections,
\* whichever the range over the map yields first.
C17_AnyRemaining ==
    [][\A c \in Conns :
          (HubUnregister(c) /\ c \in clients /\ c = hostID
              /\ Cardinality(clients') >= 2) =>
             hostID' \in clients'
      ]_vars

\* The first host is gone and the third connection, not the second, which
\* joined before it and is still a member, is the host and was told so.
C17_Witness ==
    /\ pc[1] = "done"
    /\ clients = {2, 3}
    /\ hostID = 3
    /\ toldRole[3] = "host"
    /\ toldRole[2] = "client"

Rank(m) == CHOOSE n \in 1..Len(Digits) : Digits[n] = m.content

\* What is under way from sender s to receiver r, oldest first: the message
\* last written on r's transport if it was of s, then those of s in r's queue,
\* in Hub.broadcast, and in the hands of s's ReadPump.
UnderWay(r, s) ==
    LET Of(m) == m.from = s
        OfBM(bm) == bm.From = s
        inChannel == SelectSeq(broadcast, OfBM)
    IN (IF wrote.to = r /\ wrote.msg.from = s THEN <<wrote.msg>> ELSE <<>>)
       \o SelectSeq(send[r], Of)
       \o [i \in 1..Len(inChannel) |-> inChannel[i].Message]
       \o (IF pending[s].From = s THEN <<pending[s].Message>> ELSE <<>>)

InSendingOrder ==
    \A r, s \in Conns :
       LET q == UnderWay(r, s)
       IN /\ \A i \in 1..Len(q) : Rank(q[i]) <= frames
          /\ \A i, j \in 1..Len(q) : i < j => Rank(q[i]) < Rank(q[j])

\* C15: the hub adds to a connection's outbound queue at its tail only, and
\* WritePump writes the head of the queue and removes it: what is enqueued on a
\* queue is written in the order it was enqueued. The messages of one sender
\* (numbered by their sender) are, from any receiver's transport back to the
\* sender's ReadPump, in the order they were sent, so they reach every
\* receiver in that order.
C15_WriteOrder ==
    [][/\ \A c \in Conns :
            \/ send'[c] = send[c]
            \/ /\ Len(send'[c]) = Len(send[c]) + 1
               /\ SubSeq(send'[c], 1, Len(send[c])) = send[c]
            \/ /\ send[c] # <<>>
               /\ send'[c] = Tail(send[c])
               /\ wrote' = [to |-> c, msg |-> Head(send[c])]
       /\ wrote' # wrote => wrote'.msg = Head(send[wrote'.to])
       /\ InSendingOrder'
      ]_vars

\* The first message of connection 1 was written on the transport of
\* connection 2, whose queue holds the second message of connection 1.
C15_Witness ==
    /\ wrote.to = 2
    /\ wrote.msg.from = 1
    /\ send[2] # <<>>
    /\ Head(send[2]).from = 1
    /\ Rank(wrote.msg) < Rank(Head(send[2]))

\* The request is one the boundary has to turn away when there is a host: no
\* token, a token that does not open or is not in the store, an expired token.
Unacceptable(token) ==
    \/ token = NoToken
    \/ ValidateToken(token).err \in {"invalid token", "token not found", "token expired"}

Rejected(c) == pc[c] \in {"unauthorized", "badrequest", "upgradefailed"}

\* C19: while the hub has a host, a WebSocket request that carries no token, a
\* token that fails validation or an expired token is answered 401, and no
\* connection is registered in the hub for it, then or later.
C19_TokenRequired ==
    [][/\ \A c \in Conns :
            Rejected(c)' => c \notin clients' /\ wp'[c] = "new" /\ toldRole'[c] = "none"
       /\ pc' # pc =>
             \A c \in Conns : \A token \in TokenInputs : \A upgraded \in BOOLEAN :
                (/\ hostID # NoID
                 /\ Unacceptable(token)
                 /\ HandleWebSocket(c, token, upgraded)) =>
                   /\ pc'[c] = "unauthorized"
                   /\ UNCHANGED <<clients, hostID, send, toldRole>>
      ]_vars

\* With a host in the hub, a request that carried an issued token that has
\* expired was answered 401, and one with no token too.
C19_Witness ==
    /\ hostID = 1
    /\ 1 \in clients
    /\ pc[2] = "unauthorized"
    /\ reqToken[2] \in sIssued
    /\ ValidateToken(reqToken[2]).err = "token expired"
    /\ pc[3] = "unauthorized"
    /\ reqToken[3] = NoToken

\* C20 as stated: while the hub has no host, a WebSocket request without a
\* token is admitted and its connection becomes the host, and a request with
\* any token is answered 400 and never registered.
C20_Original ==
    [][/\ \A c \in Conns :
            (HubRegister(c) /\ pc[c] = "admitted" /\ reqToken[c] = NoToken) =>
               hostID' = c
       /\ pc' # pc =>
             \A c \in Conns : \A token \in TokenInputs :
                (hostID = NoID /\ HandleWebSocket(c, token, TRUE)) =>
                   pc'[c] = IF token = NoToken THEN "admitted" ELSE "badrequest"
       /\ \A c \in Conns : pc'[c] = "badrequest" => c \notin clients'
      ]_vars

\* C20, what the code does: while the hub has no host, a request without a
\* token is admitted and a request with any token is answered 400 and never
\* registered; the admitted connection becomes the host only if the hub still
\* has no host when Hub.Run takes its registration, and a client otherwise.
C20_FirstConnection ==
    [][/\ \A c \in Conns :
            (HubRegister(c) /\ pc[c] = "admitted" /\ reqToken[c] = NoToken) =>
               /\ (hostID' = c) <=> (hostID = NoID)
               /\ c \in clients'
       /\ pc' # pc =>
             \A c \in Conns : \A token \in TokenInputs :
                (hostID = NoID /\ HandleWebSocket(c, token, TRUE)) =>
                   pc'[c] = IF token = NoToken THEN "admitted" ELSE "badrequest"
       /\ \A c \in Conns : pc'[c] = "badrequest" => c \notin clients'
      ]_vars

\* Two requests without a token were both let in while there was no host; the
\* first is the host and the second a client that never showed a token.
C20_Witness ==
    /\ clients = {1, 2}
    /\ hostID = 1
    /\ reqToken[1] = NoToken
    /\ reqToken[2] = NoToken
    /\ toldRole[2] = "client"

\* The causes for which ValidateToken turns a token down
TokenFailures == {"invalid token", "token not found", "token expired"}

\* C21: a token that fails seal integrity, a token whose id is not in the
\* store and an expired token get the same response from handleWebSocket: the
\* same status and the same body, with no change in the hub; any two requests
\* turned down for their token, whatever the cause logged, were answered alike.
C21_SameResponse ==
    [][/\ pc' # pc =>
             \A c \in Conns : \A token \in TokenInputs : \A upgraded \in BOOLEAN :
                (/\ hostID # NoID
                 /\ token # NoToken
                 /\ ValidateToken(token).err # ""
                 /\ HandleWebSocket(c, token, upgraded)) =>
                   /\ ValidateToken(token).err \in TokenFailures
                   /\ reply'[c].logged = ValidateToken(token).err
                   /\ pc'[c] = "unauthorized"
                   /\ reply'[c].body = "Invalid or expired token"
                   /\ UNCHANGED <<hubVars, send, closed, wp, connOpen, errOut, toldRole>>
       /\ \A c, d \in Conns :
             (reply'[c].logged # "" /\ reply'[d].logged # "") =>
                /\ pc'[c] = pc'[d]
                /\ reply'[c].body = reply'[d].body
      ]_vars

\* With a host in the hub, one request was turned down for an expired token
\* and a later one for a token that is no longer in the store, and a token
\* whose seal is broken would get the answer they got.
C21_Witness ==
    /\ hostID = 1
    /\ pc[2] = "unauthorized"
    /\ reply[2].logged = "token expired"
    /\ pc[3] = "unauthorized"
    /\ reply[3].logged = "token not found"
    /\ reply[2].body = reply[3].body
    /\ \E token \in Presentable :
          /\ ValidateToken(token).err = "invalid token"
          /\ Respond(HasHost, token).body = reply[2].body

\* C22: a connection whose ReadMessage failed (its ReadPump waits on the
\* Unregister channel) is eventually out of the membership table, unless the
\* hub has stopped running; and every connection that leaves the table in a
\* step is one whose own read had failed, taken by the Unregister case.
C22_ReadFailure ==
    /\ [][\A d \in clients \ clients' : pc[d] = "unregistering" /\ pc'[d] = "done"]_vars
    /\ \A c \in Conns :
          (pc[c] = "unregistering") ~> (c \notin clients \/ ~hubRunning)

\* The read of the first connection failed and it was removed; the two others
\* are members and the hub runs.
C22_Witness ==
    /\ hubRunning
    /\ ~stop
    /\ pc[1] = "done"
    /\ clients = {2, 3}
    /\ pc[2] = "reading"
    /\ pc[3] = "reading"

\* C27 as stated: after Stop() every connection's ReadPump eventually returns.
C27_Original ==
    stop ~> \A c \in Conns : pc[c] \notin {"reading", "sending", "unregistering"}

\* C27, what the code does: after Stop() every ReadPump eventually leaves its
\* read loop (its WritePump closed the transport), but one that reaches its
\* deferred c.Hub.Unregister <- c after Hub.Run returned waits there for ever,
\* and never gets to its own c.Conn.Close().
C27_BlockedOnUnregister ==
    /\ [][\A c \in Conns :
             (~hubRunning /\ pc[c] = "unregistering") => pc'[c] = "unregistering"]_vars
    /\ stop ~> \A c \in Conns : pc[c] \notin {"reading", "sending"}

\* The hub loop has returned, a member's WritePump has closed the transport on
\* the stop signal, and its ReadPump waits on the Unregister channel.
C27_Witness ==
    \E c \in Conns :
       /\ ~hubRunning
       /\ c \in clients
       /\ wp[c] = "done"
       /\ ~connOpen[c]
       /\ pc[c] = "unregistering"

\* C23 as stated: the host id is empty or the id of a connection that is in
\* the membership table.
C23_Original == hostID = NoID \/ hostID \in clients

\* C23, what the code does: the host id is empty, or the id of a member, or
\* the id of a connection whose queue the hub closed when it took it out of the
\* table; and a host id that names no member is never cleared or replaced.
C23_HostOrRemoved ==
    [][/\ hostID' = NoID \/ hostID' \in clients' \/ closed'[hostID']
       /\ (hostID # NoID /\ hostID \notin clients) => hostID' = hostID
      ]_vars

\* The host was removed by a Broadcast that found its queue full, and both its
\* pumps have returned; two clients are members, none of them host, and
\* HasHost() is true.
C23_Witness ==
    /\ HasHost
    /\ hostID = 1
    /\ clients = {2, 3}
    /\ pc[1] = "done"
    /\ wp[1] = "done"
    /\ toldRole[2] = "client"
    /\ toldRole[3] = "client"

\* C24 as stated: when the host is unregistered and a connection remains, the
\* connection that becomes host has the role=host envelope appended to its
\* queue in that step, whatever the queue holds.
C24_Original ==
    [][\A c \in Conns :
          (HubUnregister(c) /\ c \in clients /\ c = hostID /\ clients' # {}) =>
             send'[hostID'] = Append(send[hostID'], RoleMsg("host"))
      ]_vars

\* C24, what the code does: the connection that becomes host has the role=host
\* envelope appended to its queue in that step if the queue has room; if the
\* queue is full the envelope is dropped, the queue is left as it is, and the
\* connection is host without having been told.
C24_EnvelopeIfRoom ==
    [][\A c \in Conns :
          (HubUnregister(c) /\ c \in clients /\ c = hostID /\ clients' # {}) =>
             /\ hostID' \in clients'
             /\ send'[hostID'] = IF Len(send[hostID']) < SendCap
                                 THEN Append(send[hostID'], RoleMsg("host"))
                                 ELSE send[hostID']
             /\ toldRole'[hostID'] = IF Len(send[hostID']) < SendCap
                                     THEN "host"
                                     ELSE toldRole[hostID']
      ]_vars

\* The first host is gone; the second connection is the host, its queue is
\* full of what it held before, and the last role it was told is client.
C24_Witness ==
    /\ pc[1] = "done"
    /\ hostID = 2
    /\ 2 \in clients
    /\ Len(send[2]) = SendCap
    /\ Head(send[2]) = RoleMsg("client")
    /\ \A i \in 1..Len(send[2]) : send[2][i] # RoleMsg("host")
    /\ toldRole[2] = "client"

\* C25 as stated: a ValidateToken call that finds the stored record of the
\* token expired removes that record from the store.
C25_Original ==
    [][sResult' # sResult =>
          \A encrypted \in Presentable \cap {sResult'.blob} :
             (/\ SealedValidateToken(encrypted)
              /\ ValidateToken(encrypted).err = "token expired") =>
                sTokens'[encrypted.ID] = Absent
      ]_vars

\* C25, what the code does: ValidateToken only reads the store (it holds the
\* read lock): a call that finds the record expired returns "token expired" and
\* leaves the record where it is, still counted in the store's size, until a
\* sweep removes it.
C25_ValidateReadsOnly ==
    [][sResult' # sResult =>
          \A encrypted \in Presentable \cap {sResult'.blob} :
             SealedValidateToken(encrypted) =>
                /\ sTokens' = sTokens
                /\ Cardinality(Stored(sTokens')) = Cardinality(Stored(sTokens))
                /\ ValidateToken(encrypted).err = "token expired" =>
                      /\ sTokens'[encrypted.ID] # Absent
                      /\ Expired(sTokens'[encrypted.ID])
      ]_vars

\* The last validation found the token expired, and its record is still in
\* the store.
C25_Witness ==
    /\ sResult.err = "token expired"
    /\ sResult.at = now
    /\ sResult.blob \in sIssued
    /\ sTokens[sResult.blob.ID] # Absent
    /\ Expired(sTokens[sResult.blob.ID])

C28_WritePumpExits ==
    \A c \in Conns : closed[c] ~> (wp[c] = "done" /\ ~connOpen[c])

\* A connection was removed by a Broadcast for its full queue; its WritePump
\* wrote what the queue held, returned and closed the transport, while its
\* ReadPump has not noticed yet.
C28_Witness ==
    \E c \in Conns :
       /\ closed[c]
       /\ c \notin clients
       /\ pc[c] = "reading"
       /\ wrote.to = c
       /\ send[c] = <<>>
       /\ wp[c] = "done"
       /\ ~connOpen[c]

\* A client waits on the Register channel (connections arrive in the order of
\* their ids)
RegisterReady(c) ==
    /\ pc[c] \in {"new", "admitted"}
    /\ \A d \in Conns : d < c => pc[d] # "new"

\* C29: while Hub.Run runs, it can take and complete every event that waits for
\* it, a Register, an Unregister or a Broadcast, whatever the outbound queues
\* hold: none of its sends on a queue waits for room, and no queue ever holds
\* more than its capacity.
C29_NeverBlocks ==
    /\ \A c \in Conns : Len(send[c]) <= SendCap
    /\ hubRunning =>
          /\ \A c \in Conns : RegisterReady(c) => ENABLED HubRegister(c)
          /\ \A c \in Conns : pc[c] = "unregistering" => ENABLED HubUnregister(c)
          /\ broadcast # <<>> => ENABLED HubBroadcast

\* A connection was removed by a Broadcast for its full queue; the host waits
\* on the Unregister channel and the only other member's queue is full.
C29_Witness ==
    \E c, d, y \in Conns :
       /\ hubRunning
       /\ closed[c] /\ c \notin clients /\ Len(send[c]) = SendCap
       /\ clients = {d, y} /\ d # y
       /\ hostID = d
       /\ pc[d] = "unregistering"
       /\ Len(send[y]) = SendCap

\* C30 as stated: a connection that the hub registers while it has a host
\* presented a token (one that validated when the request was admitted), and
\* no two connections that presented no token are members together.
C30_Original ==
    [][/\ \A c \in Conns :
            (HubRegister(c) /\ HasHost) =>
               reqToken[c] # NoToken /\ reply[c] = NoReply
       /\ \A c, d \in clients' :
            (reqToken'[c] = NoToken /\ reqToken'[d] = NoToken) => c = d
      ]_vars

\* C30, what the code does: a request is admitted on what HasHost() returned
\* when its handler ran, with a token that validated if there was a host and
\* with no token if there was none, and the hub registers every admitted
\* connection whatever the host id has become since.
C30_AdmittedAtCheck ==
    [][/\ pc' # pc =>
             \A c \in Conns : \A token \in TokenInputs : \A upgraded \in BOOLEAN :
                (HandleWebSocket(c, token, upgraded) /\ pc'[c] = "admitted") =>
                   IF HasHost
                   THEN token # NoToken /\ ValidateToken(token).err = ""
                   ELSE token = NoToken
       /\ \A c \in clients' \ clients :
             /\ pc[c] = "admitted"
             /\ reply[c] = NoReply
             /\ HubRegister(c)
      ]_vars

\* Three requests without a token were admitted before the first of them was
\* registered: all three are members, one as host and two as clients that
\* never presented a token.
C30_Witness ==
    /\ clients = {1, 2, 3}
    /\ \A c \in Conns : reqToken[c] = NoToken /\ reply[c] = NoReply
    /\ hostID = 1
    /\ toldRole[2] = "client"
    /\ toldRole[3] = "client"

\* The ReadPump of c writes an error envelope on c.Conn for the frame it read
Rejects(c) ==
    \E f \in WriteFrames :
       /\ ReadFrame(c, f)
       /\ TooLarge(f.size) \/ ~checkRateLimit(c)

\* C31 as stated: an error envelope is never written by the ReadPump on a
\* transport while the WritePump is inside a write on it.
C31_Original ==
    [][frames' # frames => \A c \in Conns : Rejects(c) => ~writing[c]]_vars

\* C31, what the code does: nothing makes the ReadPump wait for the WritePump:
\* whenever the ReadPump of an open connection is at its ReadMessage, the step
\* that writes an error envelope for an oversize frame is possible, whether or
\* not the WritePump is inside a write on the same transport.
C31_NoExclusion ==
    \A c \in Conns :
       (pc[c] = "reading" /\ connOpen[c] /\ frames < MaxFrames) =>
          ENABLED (\E f \in WriteFrames : ReadFrame(c, f) /\ TooLarge(f.size))

\* The WritePump of a connection is inside the write of its role envelope, or
\* of a ping, while its ReadPump waits for a frame it may have to reject.
C31_Witness ==
    \E c \in Conns :
       /\ writing[c]
       /\ pc[c] = "reading"
       /\ connOpen[c]
       /\ frames < MaxFrames

\* The role envelopes of the hub: Message{Type: "role", Role: role}
HubRoleMsgs == {RoleMsg("host"), RoleMsg("client")}

\* C32 as stated: every message of type role on a connection's queue, or
\* written on its transport, is a role envelope of the hub's own making.
C32_Original ==
    /\ \A c \in Conns : \A i \in 1..Len(send[c]) :
          send[c][i].type = "role" => send[c][i] \in HubRoleMsgs
    /\ wrote.msg.type = "role" => wrote.msg \in HubRoleMsgs

\* C32, what the code does: ReadPump relays a frame with the type and role its
\* sender wrote and only sets from; a message of type role on a queue is a role
\* envelope of the hub or a relayed frame, which carries its sender's id in
\* from and went to every member but the sender.
C32_RelayedAsSent ==
    [][/\ \A c \in Conns : \A i \in 1..Len(send'[c]) :
             send'[c][i].type = "role" =>
                \/ send'[c][i] \in HubRoleMsgs
                \/ send'[c][i].from \in Conns \ {c}
       /\ frames' # frames =>
             \A c \in Conns : \A f \in RelayFrames :
                (ReadFrame(c, f) /\ pc'[c] = "sending" /\ f.type = "role") =>
                   /\ pending'[c].Message.type = "role"
                   /\ pending'[c].Message.role = "host"
                   /\ pending'[c].Message.from = c
      ]_vars

\* The second connection, a client, sent a frame of type role with role=host,
\* and it was written on the transport of the third connection, a client.
C32_Witness ==
    /\ hostID = 1
    /\ clients = {1, 2, 3}
    /\ toldRole[3] = "client"
    /\ wrote.to = 3
    /\ wrote.msg.type = "role"
    /\ wrote.msg.role = "host"
    /\ wrote.msg.from = 2

\* C33: the message ReadPump hands to the hub carries the id of the connection
\* it was read from, whatever its sender put in from, and so does every message
\* in the broadcast channel and on a queue; a Broadcast leaves the queue of
\* that connection as it is.
C33_FromIsSender ==
    [][/\ frames' # frames =>
             \A c \in Conns : \A f \in RelayFrames :
                (ReadFrame(c, f) /\ pc'[c] = "sending") =>
                   /\ pending'[c].Message.from = c
                   /\ pending'[c].From = c
       /\ \A i \in 1..Len(broadcast') :
             broadcast'[i].Message.from = broadcast'[i].From
       /\ \A c \in Conns : \A i \in 1..Len(send'[c]) :
             send'[c][i].from \in (Conns \ {c}) \cup {NoID}
       /\ HubBroadcast =>
             LET bm == Head(broadcast)
             IN /\ send'[bm.From] = send[bm.From]
                /\ \A d \in clients' \ {bm.From} : Last(send'[d]) = bm.Message
      ]_vars

\* The second connection sent a frame, with nothing or the id of the first
\* connection in from: the first connection has it on its queue with from set
\* to the second, and the second connection has only its role envelope.
C33_Witness ==
    /\ clients = {1, 2}
    /\ broadcast = <<>>
    /\ frames = 1
    /\ send[2] = <<RoleMsg("client")>>
    /\ send[1] = <<RoleMsg("host"), TextFrom(2)>>

\* The last ValidateToken call on the FIFO manager turned an issued token down
RejectedLast(id) ==
    /\ fResult.id = id
    /\ fResult.err \in {"token not found", "token expired"}
    /\ \E i \in 1..Len(issued) : issued[i] = id

\* C34 as stated: a token that ValidateToken has rejected as expired or not
\* found, and that does not validate, does not validate after any further step.
C34_Original ==
    [][\A id \in TokenIDs :
          (RejectedLast(id) /\ FifoValidate(id) # "") => FifoValidate(id)' # ""
      ]_vars

\* C34, what the code does: a rejected token stays rejected through every step
\* but a GenerateToken that returns its id again; GenerateToken takes any id
\* that is not in the store at that moment, so an id that was evicted can be
\* issued a second time, and the token validates again.
C34_DeadUntilReissued ==
    [][\A id \in TokenIDs :
          (RejectedLast(id) /\ FifoValidate(id) # "") =>
             \/ FifoValidate(id)' # ""
             \/ /\ Len(issued') = Len(issued) + 1
                /\ Last(issued') = id
      ]_vars

\* An id was issued, evicted, and issued again: the token validates, and the
\* store holds one record of it.
C34_Witness ==
    \E i, j \in 1..Len(issued) :
       /\ i < j
       /\ issued[i] = issued[j]
       /\ fResult = [id |-> issued[j], err |-> ""]
       /\ FifoValidate(issued[j]) = ""
       /\ Len(tokenOrder) = Cardinality(Stored(tokens))
       /\ Cardinality({k \in 1..Len(tokenOrder) : tokenOrder[k] = issued[j]}) = 1

\* What a frame that was dropped without a word leaves behind
DroppedSilently(c) ==
    /\ UNCHANGED <<pending, broadcast, send, errOut, clients, hostID, closed, connOpen>>
    /\ pc'[c] = "reading"

C36_MembersOpen ==
    [][\A c \in Conns :
          /\ c \in clients' => ~closed'[c] /\ closes'[c] = 0
          /\ (c \in clients /\ c \notin clients') <=> (~closed[c] /\ closed'[c])
          /\ closed[c] => closed'[c]
          /\ closed'[c] <=> closes'[c] = 1
          /\ send'[c] # send[c] /\ Len(send'[c]) >= Len(send[c]) => ~closed[c] /\ ~closed'[c]
      ]_vars

\* A Broadcast found one member's queue full and took it out of the table with
\* its queue closed, while its ReadPump is still reading; the message went on
\* the open queue of another member.
C36_Witness ==
    \E c, d \in Conns :
       /\ c \notin clients
       /\ closed[c]
       /\ closes[c] = 1
       /\ pc[c] = "reading"
       /\ Len(send[c]) = SendCap
       /\ d \in clients
       /\ ~closed[d]
       /\ send[d] # <<>>
       /\ Last(send[d]).type = "text"

\* The ids of the insertion-order list
Listed(order) == {order[k] : k \in 1..Len(order)}

\* The eviction loop, run on a map and an order list, finds an entry at the
\* head of the list in every iteration.
RECURSIVE EvictFindsOldest(_, _)
EvictFindsOldest(m, order) ==
    IF OverCapacity(Cardinality(Stored(m)))
    THEN /\ order # <<>>
         /\ EvictFindsOldest([m EXCEPT ![Oldest(order)] = Absent], Tail(order))
    ELSE TRUE

\* C37: after any sequence of GenerateToken and StoreToken every id of the map
\* occurs in the insertion-order list; so GenerateToken's eviction loop finds
\* an entry at the head of the list each time round, and ends with the store
\* within its capacity.
C37_ListedIds ==
    [][/\ Stored(tokens') \subseteq Listed(tokenOrder')
       /\ issued' # issued =>
             /\ EvictFindsOldest([tokens EXCEPT ![Last(issued')] = Unix(now)],
                                 Append(tokenOrder, Last(issued')))
             /\ Cardinality(Stored(tokens')) <= MaxTokens
             /\ Len(tokenOrder') >= Cardinality(Stored(tokens'))
      ]_vars

\* StoreToken stored one id twice and filled the store; the one GenerateToken
\* after that evicted the id at its first entry, and its second entry is still
\* in the list: the list holds an id that the map no longer has.
C37_Witness ==
    /\ Len(issued) = 1
    /\ Cardinality(Stored(tokens)) = MaxTokens
    /\ Stored(tokens) \subseteq Listed(tokenOrder)
    /\ \E k \in 1..Len(tokenOrder) : tokenOrder[k] \notin Stored(tokens)
    /\ Last(tokenOrder) = issued[1]

\* C38: the role envelope is the first item placed on the outbound queue of a
\* newly registered connection. Nothing is on the queue of a connection before
\* its registration, the registration leaves the role envelope alone on it, and
\* a step that puts a broadcast message on a queue finds a queue whose role
\* envelope was placed before.
C38_RoleFirst ==
    [][\A c \in Conns :
          /\ pc[c] \in {"new", "admitted"} => send[c] = <<>> /\ toldRole[c] = "none"
          /\ HubRegister(c) =>
                /\ send'[c] = <<RoleMsg(RoleOf(hostID', c))>>
                /\ toldRole'[c] = RoleOf(hostID', c)
          /\ (Len(send'[c]) > Len(send[c]) /\ Last(send'[c]).type # "role") =>
                /\ toldRole[c] # "none"
                /\ c \in clients
      ]_vars

\* The third connection holds its role envelope and, behind it, a message the
\* second connection sent: the role envelope was placed first.
C38_Witness ==
    /\ clients = {1, 2, 3}
    /\ pc[3] = "reading"
    /\ send[3] = <<RoleMsg("client"), TextFrom(2)>>
    /\ toldRole[3] = "client"

====
